---- MODULE Spec2Model ----
(***************************************************************************)
(* A model of the topo_sort crate (src/src/lib.rs): the dependency store   *)
(* TopoSort<T>, the traversal engine InnerIter<T> (Kahn's algorithm over a *)
(* pointer-keyed graph) and the iterator views built on it.                *)
(***************************************************************************)
EXTENDS Integers, Sequences, FiniteSets, TLC

\* Node values of the general specification are 1..MaxNode.
MaxNode == 3
\* How many times a caller keeps calling next() after it has returned None.
MaxEnds == 2

Node == 1..MaxNode

VARIABLES
    node_depends,   \* TopoSort.node_depends: HashMap<T, HashSet<T>>
    phase,          \* "idle": no iterator alive; "iter": one alive; "moved": store consumed and dropped
    view,           \* which iterator is alive: "none", "nodes", "iter", "into_iter"
    nodes,          \* InnerIter.nodes: HashMap<*const T, (HashSet<*const T>, u32)>
    no_edges,       \* InnerIter.no_edges: Vec<*const T>
    out,            \* the results the live iterator has returned so far, oldest first
    ends,           \* how many times the live iterator has returned None
    vec,            \* the value returned by the last try_vec / try_owned_vec
    panicked,       \* whether a call has panicked
    store0,         \* the map the live iterator was created from, as it then was
    inserted,       \* history: for each node inserted into the store, the argument of its latest insert
    shared          \* the borrowed iterators alive side by side, by name: each its own view, nodes, no_edges, out, ends

vars == <<node_depends, phase, view, nodes, no_edges, out, ends, vec, panicked,
          store0, inserted, shared>>

--------------------------------------------------------------------------
\* Generic helpers

Range(s) == {s[i] : i \in DOMAIN s}

\* Every order in which the elements of S can be visited (the iteration order
\* of a HashMap or HashSet is unspecified).
Orders(S) == {s \in [1..Cardinality(S) -> S] : Range(s) = S}

EmptyMap == [k \in {} |-> {}]

\* HashMap::remove
MapRemove(m, k) == [x \in DOMAIN m \ {k} |-> m[x]]

--------------------------------------------------------------------------
\* Pointers.  A *const T is the address of a T.  The key k of node_depends
\* lives at KeyAddr(k); the element d of the dependency set of k lives at
\* DepAddr(k, d), a different address holding an equal value.

KeyAddr(k) == <<k>>
DepAddr(k, d) == <<k, d>>
\* &*p : the value stored at the address
Deref(p) == p[Len(p)]

--------------------------------------------------------------------------
\* InnerIter::make_nodes

\* let new_entry_fn = || (HashSet::new(), 0);
new_entry_fn == [dependents |-> {}, edges |-> 0]

\* nodes.entry(p).or_insert_with(new_entry_fn)
or_insert_with(m, p) == IF p \in DOMAIN m THEN m ELSE m @@ (p :> new_entry_fn)

\* let lookup: HashMap<_, _> = node_depends.keys().map(|key| (key, key)).collect();
\* hashed and compared by value, yielding the address of the key
lookup(nd) == [k \in DOMAIN nd |-> KeyAddr(k)]

\* lookup.get without the swap to the key's address: the address of the
\* element of the dependency set is used as it is.
lookup_get_noswap(lk, dependency) == {dependency}

\* The dependency a graph edge is recorded against: the key's address when
\* the dependency is a key, nothing otherwise (lookup.get).
lookup_get(lk, dependency) ==
    IF Deref(dependency) \in DOMAIN lk THEN {lk[Deref(dependency)]} ELSE {}

\* The loop body with the two roles confused: the dependency is counted as
\* waiting and the dependent is recorded as what it waits for.
add_dependency_reversed(m, dependent, dependency, lk) ==
    IF Deref(dependent) # Deref(dependency)
    THEN LET found == lookup_get(lk, dependency)
         IN  IF found # {}
             THEN LET dep == CHOOSE p \in found : TRUE
                      m1 == or_insert_with(m, dep)
                      m2 == [m1 EXCEPT ![dep].edges = @ + 1]
                      m3 == or_insert_with(m2, dependent)
                  IN  [m3 EXCEPT ![dependent].dependents = @ \cup {dep}]
             ELSE m
    ELSE m

\* The loop body counting the edge before the lookup: a dependency that is
\* not a key is counted too.
add_dependency_count_first(m, dependent, dependency, lk) ==
    IF Deref(dependent) # Deref(dependency)
    THEN LET found == lookup_get(lk, dependency)
             m1 == or_insert_with(m, dependent)
             m2 == [m1 EXCEPT ![dependent].edges = @ + 1]
         IN  IF found # {}
             THEN LET dep == CHOOSE p \in found : TRUE
                      m3 == or_insert_with(m2, dep)
                  IN  [m3 EXCEPT ![dep].dependents = @ \cup {dependent}]
             ELSE m2
    ELSE m

\* The loop body without `if dependent != dependency`
add_dependency_keep_self(m, dependent, dependency, lk) ==
    LET found == lookup_get(lk, dependency)
    IN  IF found # {}
        THEN LET dep == CHOOSE p \in found : TRUE
                 m1 == or_insert_with(m, dependent)
                 m2 == [m1 EXCEPT ![dependent].edges = @ + 1]
                 m3 == or_insert_with(m2, dep)
             IN  [m3 EXCEPT ![dep].dependents = @ \cup {dependent}]
        ELSE m

\* The body of `for dependency in dependencies`
add_dependency(m, dependent, dependency, lk) ==
    IF Deref(dependent) # Deref(dependency)
    THEN LET found == lookup_get(lk, dependency)
         IN  IF found # {}
             THEN LET dep == CHOOSE p \in found : TRUE
                      m1 == or_insert_with(m, dependent)
                      m2 == [m1 EXCEPT ![dependent].edges = @ + 1]
                      m3 == or_insert_with(m2, dep)
                  IN  [m3 EXCEPT ![dep].dependents = @ \cup {dependent}]
             ELSE m
    ELSE m

\* for dependency in dependencies { ... }, in any iteration order
RECURSIVE for_dependencies(_, _, _, _)
for_dependencies(m, dependent, todo, lk) ==
    IF todo = {} THEN m
    ELSE LET dependency == CHOOSE d \in todo : TRUE
         IN  for_dependencies(add_dependency(m, dependent, dependency, lk),
                              dependent, todo \ {dependency}, lk)

\* The outer loop with `nodes.insert(dependent, new_entry_fn())` in place of
\* entry().or_insert_with(): an entry made earlier, when the node was met as
\* a dependency, is overwritten and the dependents recorded in it are lost.
RECURSIVE for_dependents_overwrite(_, _, _, _)
for_dependents_overwrite(m, todo, nd, lk) ==
    IF todo = {} THEN m
    ELSE LET k == CHOOSE k \in todo : TRUE
             dependent == KeyAddr(k)
             m1 == [x \in DOMAIN m \cup {dependent} |->
                       IF x = dependent THEN new_entry_fn ELSE m[x]]
             m2 == for_dependencies(m1, dependent,
                                    {DepAddr(k, d) : d \in nd[k]}, lk)
         IN  for_dependents_overwrite(m2, todo \ {k}, nd, lk)

\* for (dependent, dependencies) in node_depends { ... }
RECURSIVE for_dependents(_, _, _, _)
for_dependents(m, todo, nd, lk) ==
    IF todo = {} THEN m
    ELSE LET k == CHOOSE k \in todo : TRUE
             dependent == KeyAddr(k)
             m1 == or_insert_with(m, dependent)
             m2 == for_dependencies(m1, dependent,
                                    {DepAddr(k, d) : d \in nd[k]}, lk)
         IN  for_dependents(m2, todo \ {k}, nd, lk)

make_nodes(nd) == for_dependents(EmptyMap, DOMAIN nd, nd, lookup(nd))

\* make_no_edges with `find` in place of `filter`: one ready node only
make_no_edges_first(ns) ==
    LET ready == {p \in DOMAIN ns : ns[p].edges = 0}
    IN  IF ready = {} THEN {<<>>} ELSE {<<p>> : p \in ready}

\* InnerIter::make_no_edges: the nodes with no edges, collected in the
\* iteration order of the map; the set of vectors it can return.
make_no_edges(ns) == Orders({p \in DOMAIN ns : ns[p].edges = 0})

\* InnerIter::new: the graph and every initial ready vector it can hold
inner_new(nd) ==
    LET ns == make_nodes(nd)
    IN  {[nodes |-> ns, no_edges |-> ne] : ne \in make_no_edges(ns)}

--------------------------------------------------------------------------
\* InnerIter::next

\* release_dependent without the `if *edges == 0` test: every dependent is
\* pushed as soon as one of its dependencies is emitted.
release_dependent_always(st, dependent, checks) ==
    IF st.panicked THEN st
    ELSE IF dependent \notin DOMAIN st.nodes
    THEN [st EXCEPT !.panicked = TRUE]
    ELSE LET e == st.nodes[dependent].edges
         IN  IF e = 0 /\ checks
             THEN [st EXCEPT !.panicked = TRUE]
             ELSE [st EXCEPT !.nodes[dependent].edges = e - 1,
                             !.no_edges = Append(@, dependent)]

\* The body of `for &dependent in dependents`.  st is the iterator being
\* stepped; checks tells whether the build checks arithmetic overflow
\* (then `*edges -= 1` at zero panics; otherwise it wraps).  The counter is
\* a u32; a negative value e here stands for the wrapped value 2^32 + e.
release_dependent(st, dependent, checks) ==
    IF st.panicked THEN st
    ELSE IF dependent \notin DOMAIN st.nodes
    THEN [st EXCEPT !.panicked = TRUE]
    ELSE LET e == st.nodes[dependent].edges
         IN  IF e = 0 /\ checks
             THEN [st EXCEPT !.panicked = TRUE]
             ELSE LET e1 == e - 1
                  IN  [st EXCEPT !.nodes[dependent].edges = e1,
                                 !.no_edges = IF e1 = 0 THEN Append(@, dependent)
                                                        ELSE @]

\* for &dependent in dependents { ... }, visiting them in the given order
RECURSIVE for_dependents_of(_, _, _)
for_dependents_of(st, order, checks) ==
    IF order = <<>> THEN st
    ELSE for_dependents_of(release_dependent(st, Head(order), checks),
                           Tail(order), checks)

\* The orders in which the next call can visit the popped node's dependents
next_orders(ns, ne) ==
    IF ne # <<>> /\ ne[Len(ne)] \in DOMAIN ns
    THEN Orders(ns[ne[Len(ne)]].dependents)
    ELSE {<<>>}

\* InnerIter::next without `self.nodes.clear()` in the last arm
inner_next_noclear(ns, ne, order, checks) ==
    IF ne # <<>>
    THEN LET node == ne[Len(ne)]
             popped == SubSeq(ne, 1, Len(ne) - 1)
         IN  IF node \notin DOMAIN ns
             THEN [nodes |-> ns, no_edges |-> popped, panicked |-> TRUE,
                   ret |-> <<"None">>]
             ELSE LET st == for_dependents_of(
                                [nodes |-> MapRemove(ns, node),
                                 no_edges |-> popped, panicked |-> FALSE],
                                order, checks)
                  IN  [nodes |-> st.nodes, no_edges |-> st.no_edges,
                       panicked |-> st.panicked, ret |-> <<"Ok", node>>]
    ELSE IF DOMAIN ns = {}
    THEN [nodes |-> ns, no_edges |-> ne, panicked |-> FALSE, ret |-> <<"None">>]
    ELSE [nodes |-> ns, no_edges |-> ne, panicked |-> FALSE, ret |-> <<"Err">>]

\* InnerIter::next without the arm `None if self.nodes.is_empty() => None`:
\* an empty ready vector is always reported as a cycle.
inner_next_no_end_arm(ns, ne, order, checks) ==
    IF ne # <<>>
    THEN LET node == ne[Len(ne)]
             popped == SubSeq(ne, 1, Len(ne) - 1)
         IN  IF node \notin DOMAIN ns
             THEN [nodes |-> ns, no_edges |-> popped, panicked |-> TRUE,
                   ret |-> <<"None">>]
             ELSE LET st == for_dependents_of(
                                [nodes |-> MapRemove(ns, node),
                                 no_edges |-> popped, panicked |-> FALSE],
                                order, checks)
                  IN  [nodes |-> st.nodes, no_edges |-> st.no_edges,
                       panicked |-> st.panicked, ret |-> <<"Ok", node>>]
    ELSE [nodes |-> EmptyMap, no_edges |-> ne, panicked |-> FALSE,
          ret |-> <<"Err">>]

\* InnerIter::next reading the popped node's entry with get instead of
\* taking it out with remove: the node stays in the graph
inner_next_keep_node(ns, ne, order, checks) ==
    IF ne # <<>>
    THEN LET node == ne[Len(ne)]
             popped == SubSeq(ne, 1, Len(ne) - 1)
         IN  IF node \notin DOMAIN ns
             THEN [nodes |-> ns, no_edges |-> popped, panicked |-> TRUE,
                   ret |-> <<"None">>]
             ELSE LET st == for_dependents_of(
                                [nodes |-> ns,
                                 no_edges |-> popped, panicked |-> FALSE],
                                order, checks)
                  IN  [nodes |-> st.nodes, no_edges |-> st.no_edges,
                       panicked |-> st.panicked, ret |-> <<"Ok", node>>]
    ELSE IF DOMAIN ns = {}
    THEN [nodes |-> ns, no_edges |-> ne, panicked |-> FALSE, ret |-> <<"None">>]
    ELSE [nodes |-> EmptyMap, no_edges |-> ne, panicked |-> FALSE,
          ret |-> <<"Err">>]

\* InnerIter::next.  ret is <<"Ok", p>>, <<"Err">> (the CycleError) or
\* <<"None">>.
inner_next(ns, ne, order, checks) ==
    IF ne # <<>>
    THEN LET node == ne[Len(ne)]
             popped == SubSeq(ne, 1, Len(ne) - 1)
         IN  IF node \notin DOMAIN ns
             THEN [nodes |-> ns, no_edges |-> popped, panicked |-> TRUE,
                   ret |-> <<"None">>]
             ELSE LET st == for_dependents_of(
                                [nodes |-> MapRemove(ns, node),
                                 no_edges |-> popped, panicked |-> FALSE],
                                order, checks)
                  IN  [nodes |-> st.nodes, no_edges |-> st.no_edges,
                       panicked |-> st.panicked, ret |-> <<"Ok", node>>]
    ELSE IF DOMAIN ns = {}
    THEN [nodes |-> ns, no_edges |-> ne, panicked |-> FALSE, ret |-> <<"None">>]
    ELSE [nodes |-> EmptyMap, no_edges |-> ne, panicked |-> FALSE,
          ret |-> <<"Err">>]

InnerIter_size_hint(ns) == <<Cardinality(DOMAIN ns), Cardinality(DOMAIN ns)>>

--------------------------------------------------------------------------
\* The views: what each maps a result of InnerIter::next to

IsOk(r) == r[1] = "Ok"
IsErr(r) == r[1] = "Err"
CycleError == <<"Err">>

\* TopoSortIter::next pairing the node with the edges the graph was built
\* from (the dependencies that are other keys) instead of the stored set
TopoSortIter_item_edges(nd, p) ==
    IF Deref(p) \in DOMAIN nd
    THEN [item |-> <<"Ok", Deref(p), (nd[Deref(p)] \cap DOMAIN nd) \ {Deref(p)}>>,
          nd |-> nd, panicked |-> FALSE]
    ELSE [item |-> <<"None">>, nd |-> nd, panicked |-> TRUE]

\* TopoSortIter::next taking the entry out of the map, as the consuming
\* iterator does
TopoSortIter_item_remove(nd, p) ==
    IF Deref(p) \in DOMAIN nd
    THEN [item |-> <<"Ok", Deref(p), nd[Deref(p)]>>,
          nd |-> MapRemove(nd, Deref(p)), panicked |-> FALSE]
    ELSE [item |-> <<"None">>, nd |-> nd, panicked |-> TRUE]

\* TopoSortIter::next on Ok(node): (&*node, &self.node_depends[&*node])
TopoSortIter_item(nd, p) ==
    IF Deref(p) \in DOMAIN nd
    THEN [item |-> <<"Ok", Deref(p), nd[Deref(p)]>>, nd |-> nd, panicked |-> FALSE]
    ELSE [item |-> <<"None">>, nd |-> nd, panicked |-> TRUE]

\* TopoSortNodeIter::next on Ok: result.map(|(node, _)| node)
TopoSortNodeIter_item(nd, p) ==
    LET r == TopoSortIter_item(nd, p)
    IN  [r EXCEPT !.item = IF r.panicked THEN @ ELSE <<"Ok", @[2]>>]

\* IntoTopoSortIter::next with a lookup in place of remove_entry: the pair is
\* returned and the entry stays in the map.
IntoTopoSortIter_item_keep(nd, p) ==
    IF Deref(p) \in DOMAIN nd
    THEN [item |-> <<"Ok", Deref(p), nd[Deref(p)]>>, nd |-> nd,
          panicked |-> FALSE]
    ELSE [item |-> <<"None">>, nd |-> nd, panicked |-> TRUE]

\* IntoTopoSortIter::next on Ok(node): self.node_depends.remove_entry(&*node)
IntoTopoSortIter_item(nd, p) ==
    IF Deref(p) \in DOMAIN nd
    THEN [item |-> <<"Ok", Deref(p), nd[Deref(p)]>>,
          nd |-> MapRemove(nd, Deref(p)), panicked |-> FALSE]
    ELSE [item |-> <<"None">>, nd |-> nd, panicked |-> TRUE]

view_item(v, nd, p) ==
    CASE v = "iter" -> TopoSortIter_item(nd, p)
      [] v = "nodes" -> TopoSortNodeIter_item(nd, p)
      [] v = "into_iter" -> IntoTopoSortIter_item(nd, p)

--------------------------------------------------------------------------
\* The eager forms

\* Every sequence of results collect() can pull from a TopoSortNodeIter in
\* state (ns, ne) over the store nd: it calls next() until it gets None or
\* an Err, and not again after that.  checks: whether the build checks
\* arithmetic overflow.
RECURSIVE node_runs(_, _, _, _)
node_runs(nd, ns, ne, checks) ==
    UNION {
        LET r == inner_next(ns, ne, order, checks)
        IN  IF r.panicked THEN {<< <<"Panic">> >>}
            ELSE IF IsOk(r.ret)
            THEN LET it == TopoSortNodeIter_item(nd, r.ret[2])
                 IN  IF it.panicked THEN {<< <<"Panic">> >>}
                     ELSE {<<it.item>> \o t :
                              t \in node_runs(nd, r.nodes, r.no_edges, checks)}
            ELSE IF IsErr(r.ret)
            THEN {<<CycleError>>}
            ELSE {<<>>}
        : order \in next_orders(ns, ne) }

\* collect that stops at the first Err but returns what it has buffered
RECURSIVE collect_partial(_, _)
collect_partial(run, buf) ==
    IF run = <<>> THEN [tag |-> "Ok", v |-> buf]
    ELSE IF IsErr(Head(run)) THEN [tag |-> "Ok", v |-> buf]
    ELSE IF IsOk(Head(run))
    THEN collect_partial(Tail(run), Append(buf, Head(run)[2]))
    ELSE [tag |-> "Panic", v |-> <<>>]

\* Iterator::collect into a Result<Vec<_>, CycleError>: the items up to the
\* first Err; that Err alone if there is one, the vector of items otherwise.
RECURSIVE collect(_, _)
collect(run, buf) ==
    IF run = <<>> THEN [tag |-> "Ok", v |-> buf]
    ELSE IF IsErr(Head(run)) THEN [tag |-> "Err", v |-> <<>>]
    ELSE IF IsOk(Head(run)) THEN collect(Tail(run), Append(buf, Head(run)[2]))
    ELSE [tag |-> "Panic", v |-> <<>>]

NoVec == [tag |-> "none", v |-> <<>>, by |-> "none"]

\* TopoSort::try_vec: self.nodes().collect()
try_vec(nd) ==
    {collect(run, <<>>) :
        run \in UNION {node_runs(nd, it.nodes, it.no_edges, checks)
                       : it \in inner_new(nd), checks \in BOOLEAN}}

\* T::clone
clone(x) == x

\* TopoSort::try_owned_vec: the same, each node cloned
try_owned_vec(nd) ==
    {[r EXCEPT !.v = [i \in DOMAIN r.v |-> clone(r.v[i])]] : r \in try_vec(nd)}

--------------------------------------------------------------------------
\* The state machine

TopoSort_new == EmptyMap

Init ==
    /\ node_depends = TopoSort_new
    /\ phase = "idle"
    /\ view = "none"
    /\ nodes = EmptyMap
    /\ no_edges = <<>>
    /\ out = <<>>
    /\ ends = 0
    /\ vec = NoVec
    /\ panicked = FALSE
    /\ store0 = EmptyMap
    /\ inserted = EmptyMap
    /\ shared = EmptyMap

\* An insert that adds the value to the one the key already has
MapInsert_merge(m, k, v) ==
    [x \in DOMAIN m \cup {k} |->
        IF x = k THEN (IF k \in DOMAIN m THEN m[k] \cup v ELSE v) ELSE m[x]]

\* HashMap::insert: an existing entry for the key is replaced
MapInsert(m, k, v) == [x \in DOMAIN m \cup {k} |-> IF x = k THEN v ELSE m[x]]

\* The number of dependencies the store holds
NumDepends(nd) == Cardinality(UNION {{<<k, d>> : d \in nd[k]} : k \in DOMAIN nd})

\* slice.to_vec(): a Vec of clones of the elements, in order
to_vec(slice) == clone(slice)

\* HashSet::from_iter and Iterator::collect into a HashSet: the elements are
\* inserted one by one, an element already in the set is dropped
RECURSIVE HashSet_from_iter(_)
HashSet_from_iter(i) ==
    IF i = <<>> THEN {}
    ELSE LET rest == HashSet_from_iter(Tail(i))
         IN  IF Head(i) \in rest THEN rest ELSE rest \cup {Head(i)}

\* TopoSort::insert_from_slice
insert_from_slice(nd, node, slice) ==
    MapInsert(nd, node, HashSet_from_iter(to_vec(slice)))

\* TopoSort::insert_from_set
insert_from_set(nd, node, depends) == MapInsert(nd, node, depends)

\* TopoSort::insert
insert(nd, node, i) == MapInsert(nd, node, HashSet_from_iter(i))

\* TopoSort::is_empty, TopoSort::len, TopoSort::get
is_empty(nd) == Cardinality(DOMAIN nd) = 0

len(nd) == Cardinality(DOMAIN nd)

get(nd, node) == IF node \in DOMAIN nd THEN <<"Some", nd[node]>> ELSE <<"None">>

\* The history of insert calls: the latest argument given for each node
Given(form, slice, set) == [form |-> form, slice |-> slice, set |-> set]

Note(h, node, arg) == [x \in DOMAIN h \cup {node} |-> IF x = node THEN arg ELSE h[x]]

\* A call of TopoSort::insert_from_set.  The caller is taken to let go of the
\* last eager result (DropVec) before the next operation on the store.
Insert(node, depends) ==
    /\ phase = "idle"
    /\ ~panicked
    /\ vec = NoVec
    /\ node_depends' = insert_from_set(node_depends, node, depends)
    /\ inserted' = Note(inserted, node, Given("set", <<>>, depends))
    /\ UNCHANGED <<phase, view, nodes, no_edges, out, ends, vec, panicked,
                   store0, shared>>

\* A call of TopoSort::insert_from_slice
InsertFromSlice(node, slice) ==
    /\ phase = "idle"
    /\ ~panicked
    /\ vec = NoVec
    /\ node_depends' = insert_from_slice(node_depends, node, slice)
    /\ inserted' = Note(inserted, node, Given("slice", slice, {}))
    /\ UNCHANGED <<phase, view, nodes, no_edges, out, ends, vec, panicked,
                   store0, shared>>

\* A call of TopoSort::insert with an iterator yielding the elements of i
InsertIter(node, i) ==
    /\ phase = "idle"
    /\ ~panicked
    /\ vec = NoVec
    /\ node_depends' = insert(node_depends, node, i)
    /\ inserted' = Note(inserted, node, Given("iter", i, {}))
    /\ UNCHANGED <<phase, view, nodes, no_edges, out, ends, vec, panicked,
                   store0, shared>>

\* TopoSort::nodes, TopoSort::iter, TopoSort::into_iter
Start(v) ==
    /\ phase = "idle"
    /\ ~panicked
    /\ vec = NoVec
    /\ \E it \in inner_new(node_depends) :
          /\ nodes' = it.nodes
          /\ no_edges' = it.no_edges
    /\ phase' = "iter"
    /\ view' = v
    /\ out' = <<>>
    /\ ends' = 0
    /\ store0' = node_depends
    /\ UNCHANGED <<node_depends, vec, panicked, inserted, shared>>

\* One call of next() on the live iterator
IterNext ==
    /\ phase = "iter"
    /\ ~panicked
    /\ ends < MaxEnds
    /\ \E order \in next_orders(nodes, no_edges), checks \in BOOLEAN :
          LET r == inner_next(nodes, no_edges, order, checks)
              it == IF IsOk(r.ret) /\ ~r.panicked
                    THEN view_item(view, node_depends, r.ret[2])
                    ELSE [item |-> r.ret, nd |-> node_depends,
                          panicked |-> r.panicked]
          IN  /\ nodes' = r.nodes
              /\ no_edges' = r.no_edges
              /\ panicked' = it.panicked
              /\ node_depends' = it.nd
              /\ out' = IF it.panicked \/ it.item = <<"None">> THEN out
                        ELSE Append(out, it.item)
              /\ ends' = IF ~it.panicked /\ it.item = <<"None">> THEN ends + 1
                         ELSE ends
    /\ UNCHANGED <<phase, view, vec, store0, inserted, shared>>

\* The live iterator is dropped.  A consuming iterator owns the store and
\* drops what is left of it.
DropIter ==
    /\ phase = "iter"
    /\ ~panicked
    /\ phase' = IF view = "into_iter" THEN "moved" ELSE "idle"
    /\ node_depends' = IF view = "into_iter" THEN EmptyMap ELSE node_depends
    /\ view' = "none"
    /\ nodes' = EmptyMap
    /\ no_edges' = <<>>
    /\ out' = <<>>
    /\ ends' = 0
    /\ store0' = EmptyMap
    /\ inserted' = IF view = "into_iter" THEN EmptyMap ELSE inserted
    /\ UNCHANGED <<vec, panicked, shared>>

\* TopoSort::try_vec and TopoSort::try_owned_vec
TryVec(by) ==
    /\ phase = "idle"
    /\ ~panicked
    /\ vec = NoVec
    /\ \E r \in (IF by = "try_vec" THEN try_vec(node_depends)
                                  ELSE try_owned_vec(node_depends)) :
          /\ panicked' = (r.tag = "Panic")
          /\ vec' = IF r.tag = "Panic" THEN vec
                    ELSE [tag |-> r.tag, v |-> r.v, by |-> by]
    /\ UNCHANGED <<node_depends, phase, view, nodes, no_edges, out, ends,
                   store0, inserted, shared>>

\* The caller lets go of the value try_vec / try_owned_vec returned
DropVec ==
    /\ vec # NoVec
    /\ ~panicked
    /\ vec' = NoVec
    /\ UNCHANGED <<node_depends, phase, view, nodes, no_edges, out, ends,
                   panicked, store0, inserted, shared>>

\* The stores of the general specification: nodes and dependencies from
\* Node, at most MaxDepends dependencies in all.
MaxDepends == 3

InsertAny ==
    \E node \in Node, depends \in SUBSET Node :
        /\ NumDepends(MapInsert(node_depends, node, depends)) <= MaxDepends
        /\ Insert(node, depends)

StartAny == \E v \in {"nodes", "iter", "into_iter"} : Start(v)

TryVecAny == \E by \in {"try_vec", "try_owned_vec"} : TryVec(by)

Next ==
    \/ InsertAny
    \/ StartAny
    \/ IterNext
    \/ DropIter
    \/ TryVecAny
    \/ DropVec

Spec == Init /\ [][Next]_vars

--------------------------------------------------------------------------
\* The fixtures of the tests

\* tests::test_good, tests::test_loop, tests::test_consuming_iter
GoodStore ==
    [k \in {"A", "B", "C", "D", "E"} |->
        CASE k = "C" -> {"A", "B"}
          [] k = "E" -> {"B", "C"}
          [] k = "A" -> {}
          [] k = "D" -> {"A", "C", "E"}
          [] k = "B" -> {"A"}]

\* tests::test_good_with_excess_depends
ExcessStore ==
    [k \in {"A", "B", "C", "D", "E"} |->
        CASE k = "C" -> {"F", "A", "B"}
          [] k = "E" -> {"C", "B"}
          [] k = "A" -> {"A", "G"}
          [] k = "D" -> {"A", "C", "E"}
          [] k = "B" -> {"B", "A"}]

\* tests::test_termination
TerminationStore ==
    [k \in 1..4 |-> CASE k = 1 -> {2} [] k = 2 -> {1} [] k = 3 -> {4} [] k = 4 -> {}]

\* The good fixtures are built entry by entry, in any order, an entry of
\* either fixture at a time.
InsertGood ==
    \E k \in DOMAIN GoodStore, f \in {GoodStore, ExcessStore} : Insert(k, f[k])

NextGood ==
    \/ InsertGood
    \/ StartAny
    \/ IterNext
    \/ DropIter
    \/ TryVecAny
    \/ DropVec

SpecGood == Init /\ [][NextGood]_vars

\* Stores of the shape of the termination fixture: its nodes, each with at
\* most as many dependencies as a node of the fixture has.
InsertTermination ==
    \E k \in DOMAIN TerminationStore, depends \in SUBSET DOMAIN TerminationStore :
        /\ \E j \in DOMAIN TerminationStore :
              Cardinality(depends) <= Cardinality(TerminationStore[j])
        /\ Insert(k, depends)

NextTermination ==
    \/ InsertTermination
    \/ StartAny
    \/ IterNext
    \/ DropIter
    \/ TryVecAny
    \/ DropVec

SpecTermination == Init /\ [][NextTermination]_vars

--------------------------------------------------------------------------
\* The dependency graph of a store, as the claims speak of it

\* The dependencies of k that are keys and not k itself
KeyDeps(nd, k) == (nd[k] \cap DOMAIN nd) \ {k}

RECURSIVE DepClosure(_, _)
DepClosure(nd, S) ==
    LET T == S \cup UNION {KeyDeps(nd, k) : k \in S}
    IN  IF T = S THEN S ELSE DepClosure(nd, T)

\* The keys k depends on, directly or through other keys
Reach(nd, k) == DepClosure(nd, KeyDeps(nd, k))

OnCycle(nd, k) == k \in Reach(nd, k)
HasCycle(nd) == \E k \in DOMAIN nd : OnCycle(nd, k)

\* k lies on a cycle or depends, directly or through other keys, on a key
\* that does
Blocked(nd, k) == \E c \in Reach(nd, k) \cup {k} : OnCycle(nd, c)

\* The nodes of the successful results, in the order they were returned
Emitted(o) ==
    LET oks == SelectSeq(o, IsOk) IN [i \in DOMAIN oks |-> oks[i][2]]

HasErr(o) == \E i \in DOMAIN o : IsErr(o[i])

\* The live iterator has been driven until it returned None
Exhausted == phase = "iter" /\ ends >= 1

\* In o, every successful result for a key comes after successful results for
\* all the key dependencies of that key.
DependenciesFirst(nd, o) ==
    \A i \in DOMAIN o :
        (IsOk(o[i]) /\ o[i][2] \in DOMAIN nd) =>
            \A d \in KeyDeps(nd, o[i][2]) :
                \E j \in 1..(i - 1) : IsOk(o[j]) /\ o[j][2] = d

--------------------------------------------------------------------------
\* C1: Topological validity.  When the key graph of the store is acyclic,
\* every node a traversal has returned was returned after all of its
\* dependencies that are keys of the store (other than itself), whatever
\* the order in which ready nodes were taken.
C1_TopologicalValidity ==
    (phase = "iter" /\ ~HasCycle(store0)) => DependenciesFirst(store0, out)

\* An exhausted traversal of an acyclic store of three keys, one of which
\* has two key dependencies.
C1_Witness ==
    /\ Exhausted
    /\ ~HasCycle(store0)
    /\ Cardinality(DOMAIN store0) >= 3
    /\ \E i \in DOMAIN out :
          IsOk(out[i]) /\ Cardinality(KeyDeps(store0, out[i][2])) >= 2

\* C2: Completeness.  An exhausted traversal of a store with an acyclic key
\* graph has returned every key exactly once, and nothing else: no cycle
\* signal and no node that is not a key.
C2_Completeness ==
    (Exhausted /\ ~HasCycle(store0)) =>
        /\ ~HasErr(out)
        /\ Range(Emitted(out)) = DOMAIN store0
        /\ Len(Emitted(out)) = Cardinality(DOMAIN store0)
        /\ Len(out) = Len(Emitted(out))

\* An exhausted traversal of a store whose only key has no dependencies
\* (tests::test_good_with_no_depends)
C2_Witness ==
    /\ Exhausted
    /\ Cardinality(DOMAIN store0) = 1
    /\ \A k \in DOMAIN store0 : store0[k] = {}
    /\ Len(out) = 1
    /\ IsOk(out[1])

\* The keys that neither lie on a cycle nor depend on a key that does
Unblocked(nd) == {k \in DOMAIN nd : ~Blocked(nd, k)}

\* C3 as stated: an exhausted traversal of a store whose key graph has a
\* cycle has returned exactly the keys that lie on no cycle, dependencies
\* first, and then one cycle signal.
C3_Original ==
    (Exhausted /\ HasCycle(store0)) =>
        /\ Range(Emitted(out)) = {k \in DOMAIN store0 : ~OnCycle(store0, k)}
        /\ DependenciesFirst(store0, out)
        /\ Len(out) = Len(Emitted(out)) + 1
        /\ IsErr(out[Len(out)])

\* C3 (amended): Cycle detection soundness.  A traversal of a store whose key
\* graph has a cycle returns, dependencies first and each once, the keys
\* that neither lie on a cycle nor depend (directly or through other keys)
\* on a key that does; once all of these are out it returns exactly one
\* cycle signal, which leaves the graph and the ready vector empty, and it
\* does not reach the end without having returned the signal.
C3_CycleSoundness ==
    (phase = "iter" /\ HasCycle(store0)) =>
        /\ Range(Emitted(out)) \subseteq Unblocked(store0)
        /\ Len(Emitted(out)) = Cardinality(Range(Emitted(out)))
        /\ DependenciesFirst(store0, out)
        /\ HasErr(out) =>
              /\ Range(Emitted(out)) = Unblocked(store0)
              /\ Len(out) = Len(Emitted(out)) + 1
              /\ IsErr(out[Len(out)])
              /\ nodes = EmptyMap
              /\ no_edges = <<>>
        /\ Exhausted => HasErr(out)

\* An exhausted traversal that returned a node and the signal, of a store
\* where some key off every cycle depends on a key on a cycle
C3_Witness ==
    /\ Exhausted
    /\ HasErr(out)
    /\ Len(out) >= 2
    /\ \E k \in DOMAIN store0 : Blocked(store0, k) /\ ~OnCycle(store0, k)

\* C4: A traversal returns the cycle signal only if the key graph of the
\* store (self-dependencies and dependencies on non-keys left out) has a
\* cycle, and an exhausted traversal has returned it if and only if that
\* graph has a cycle.
C4_SignalIffCycle ==
    phase = "iter" =>
        /\ HasErr(out) => HasCycle(store0)
        /\ Exhausted => (HasErr(out) <=> HasCycle(store0))

\* An exhausted traversal that returned the signal for an indirect cycle:
\* three keys on a cycle, no two of them depending on each other
C4_Witness ==
    /\ Exhausted
    /\ HasErr(out)
    /\ Cardinality(DOMAIN store0) = 3
    /\ \A k \in DOMAIN store0 :
          /\ OnCycle(store0, k)
          /\ \A d \in KeyDeps(store0, k) : k \notin KeyDeps(store0, d)

\* C5: The results hold at most one cycle signal, and nothing after it; once
\* next() has returned the signal or None, every further call returns None
\* and adds no result.
C5_Step ==
    /\ \A i \in DOMAIN out' : IsErr(out'[i]) => i = Len(out')
    /\ (phase = "iter" /\ phase' = "iter" /\ (ends >= 1 \/ HasErr(out))) =>
          (out' = out /\ ends' = ends + 1)

C5_SignalIsFinal == [][C5_Step]_vars

\* Two calls after a signal that followed a successful result
C5_Witness ==
    /\ phase = "iter"
    /\ HasErr(out)
    /\ Len(out) >= 2
    /\ ends >= 2

\* C6: Once a traversal has returned the cycle signal, the nodes it returned
\* before are exactly the keys that neither lie on a cycle nor depend on a
\* key that does, each after its dependencies: a set fixed by the store,
\* whatever order ready nodes were taken in.  No key on a cycle is ever
\* returned.  For the store {1:[2], 2:[1], 3:[4], 4:[]} the results are
\* 4, 3 and the signal.
C6_EmittedBeforeSignal ==
    phase = "iter" =>
        /\ \A k \in Range(Emitted(out)) :
              k \in DOMAIN store0 /\ ~OnCycle(store0, k)
        /\ HasErr(out) =>
              /\ Range(Emitted(out)) = Unblocked(store0)
              /\ DependenciesFirst(store0, out)
        /\ (store0 = TerminationStore /\ HasErr(out)) =>
              /\ Emitted(out) = <<4, 3>>
              /\ IsErr(out[3])
              /\ Len(out) = 3

\* The test's store, traversed to the end
C6_Witness ==
    /\ Exhausted
    /\ store0 = TerminationStore
    /\ Emitted(out) = <<4, 3>>
    /\ HasErr(out)

\* tests::test_good: vec!["A", "B", "C", "E", "D"]
GoodOrder == <<"A", "B", "C", "E", "D">>

IsPrefix(a, b) == Len(a) <= Len(b) /\ \A i \in DOMAIN a : a[i] = b[i]

\* C7: For the store {A:[], B:[A], C:[A,B], E:[B,C], D:[A,C,E]}, however it
\* was inserted and whichever ready node is taken at each step, every lazy
\* view returns A, B, C, E, D in that order and no cycle signal, and the
\* eager forms return the vector A, B, C, E, D.
C7_GoodOrder ==
    /\ (phase = "iter" /\ store0 = GoodStore) =>
          /\ ~HasErr(out)
          /\ IsPrefix(Emitted(out), GoodOrder)
          /\ Exhausted => Emitted(out) = GoodOrder
    /\ (vec.tag # "none" /\ node_depends = GoodStore) =>
          (vec.tag = "Ok" /\ vec.v = GoodOrder)

\* The consuming view driven to the end over that store
C7_Witness ==
    /\ Exhausted
    /\ view = "into_iter"
    /\ store0 = GoodStore
    /\ Emitted(out) = GoodOrder

\* Every sequence of results a node traversal of the store can return, up to
\* its end or its cycle signal
AllRuns(nd) ==
    UNION {node_runs(nd, it.nodes, it.no_edges, checks)
           : it \in inner_new(nd), checks \in BOOLEAN}

\* The store without its dependencies on non-keys
StripDangling(nd) == [k \in DOMAIN nd |-> nd[k] \cap DOMAIN nd]

\* The store without its self-dependencies
StripSelf(nd) == [k \in DOMAIN nd |-> nd[k] \ {k}]

\* The live traversal has just returned its first None
JustEnded == phase = "iter" /\ ends = 1

\* C8: Dangling-dependency tolerance.  The result sequences a traversal of a
\* store can return are those a traversal of the store without its
\* dependencies on non-keys can return, and what a traversal did return is
\* one of them; no non-key is returned; a key whose key dependencies have all
\* been returned is in the ready vector, whatever non-keys it lists.
C8_DanglingTolerance ==
    /\ (phase = "idle" /\ vec = NoVec) =>
          AllRuns(node_depends) = AllRuns(StripDangling(node_depends))
    /\ (JustEnded /\ view = "nodes") => out \in AllRuns(StripDangling(store0))
    /\ phase = "iter" =>
          /\ Range(Emitted(out)) \subseteq DOMAIN store0
          /\ ~HasErr(out) =>
                \A k \in DOMAIN store0 \ Range(Emitted(out)) :
                    KeyDeps(store0, k) \subseteq Range(Emitted(out)) =>
                        KeyAddr(k) \in Range(no_edges)

\* An exhausted node traversal, without signal, of a store in which a key
\* that has a key dependency also lists a non-key
C8_Witness ==
    /\ Exhausted
    /\ view = "nodes"
    /\ ~HasErr(out)
    /\ \E k \in DOMAIN store0 :
          /\ KeyDeps(store0, k) # {}
          /\ store0[k] \ DOMAIN store0 # {}

\* C9: Self-dependency tolerance.  The result sequences a traversal of a
\* store can return are those a traversal of the store without its
\* self-dependencies can return, and what a traversal did return is one of
\* them; a key that lists itself is ready once its other key dependencies
\* have been returned.
C9_SelfTolerance ==
    /\ (phase = "idle" /\ vec = NoVec) =>
          AllRuns(node_depends) = AllRuns(StripSelf(node_depends))
    /\ (JustEnded /\ view = "nodes") => out \in AllRuns(StripSelf(store0))
    /\ (phase = "iter" /\ ~HasErr(out)) =>
          \A k \in DOMAIN store0 \ Range(Emitted(out)) :
              (k \in store0[k] /\ store0[k] \cap DOMAIN store0
                                    \subseteq Range(Emitted(out)) \cup {k}) =>
                  KeyAddr(k) \in Range(no_edges)

\* An exhausted node traversal, without signal, that returned a key listing
\* itself and another key
C9_Witness ==
    /\ Exhausted
    /\ view = "nodes"
    /\ ~HasErr(out)
    /\ \E k \in Range(Emitted(out)) :
          k \in store0[k] /\ KeyDeps(store0, k) # {}

\* In the sequence v of nodes, every key comes after its key dependencies
NodesInOrder(nd, v) ==
    \A i \in DOMAIN v :
        v[i] \in DOMAIN nd =>
            \A d \in KeyDeps(nd, v[i]) : \E j \in 1..(i - 1) : v[j] = d

\* C10: try_vec and try_owned_vec return the cycle error, and no nodes,
\* exactly when the key graph of the store has a cycle, which is when a lazy
\* node traversal of the store returns the signal (also when it returns
\* nodes before it); otherwise they return the nodes of such a traversal in
\* the order it returns them: every key once, dependencies first.
C10_EagerResult ==
    vec.tag # "none" =>
        /\ vec.tag \in {"Ok", "Err"}
        /\ vec.tag = "Err" <=> HasCycle(node_depends)
        /\ vec.tag = "Err" <=> \E run \in AllRuns(node_depends) : HasErr(run)
        /\ vec.tag = "Err" => vec.v = <<>>
        /\ vec.tag = "Ok" =>
              /\ \E run \in AllRuns(node_depends) :
                    ~HasErr(run) /\ Emitted(run) = vec.v
              /\ Range(vec.v) = DOMAIN node_depends
              /\ Len(vec.v) = Cardinality(DOMAIN node_depends)
              /\ NodesInOrder(node_depends, vec.v)

\* try_vec returned the error for a store of which a lazy traversal returns
\* a node before the signal
C10_Witness ==
    /\ vec.tag = "Err"
    /\ vec.by = "try_vec"
    /\ Unblocked(node_depends) # {}

--------------------------------------------------------------------------
\* The live iterator is the consuming one
Consuming == phase = "iter" /\ view = "into_iter"

\* No successful result is for a node an earlier one was for
NoDuplicates(o) == Len(Emitted(o)) = Cardinality(Range(Emitted(o)))

\* C11 as stated: once a consuming traversal has returned None, the map it
\* owns is empty, and every key was returned exactly once except the keys
\* of the cyclic remainder.
C11_Original ==
    (Consuming /\ Exhausted) =>
        /\ node_depends = EmptyMap
        /\ NoDuplicates(out)
        /\ Range(Emitted(out)) = Unblocked(store0)

\* C11 (amended): at every point of a consuming traversal the map it owns
\* holds exactly the entries of the keys it has not returned, unchanged, and
\* every pointer of the graph and of the ready vector is to a key still in
\* the map; no key is returned twice.  Once it has returned None the map
\* holds exactly the cyclic remainder (the keys on a cycle or depending on
\* one), so it is empty exactly when the key graph is acyclic.
C11_ConsumingDrains ==
    Consuming =>
        /\ DOMAIN node_depends = DOMAIN store0 \ Range(Emitted(out))
        /\ \A k \in DOMAIN node_depends : node_depends[k] = store0[k]
        /\ NoDuplicates(out)
        /\ \A p \in DOMAIN nodes \cup Range(no_edges) :
              Deref(p) \in DOMAIN node_depends
        /\ Exhausted =>
              /\ DOMAIN node_depends = DOMAIN store0 \ Unblocked(store0)
              /\ (node_depends = EmptyMap) <=> ~HasCycle(store0)

\* A consuming traversal that returned a node, then the signal, then None,
\* and still owns entries
C11_Witness ==
    /\ Consuming
    /\ Exhausted
    /\ HasErr(out)
    /\ Len(out) >= 2
    /\ node_depends # EmptyMap

--------------------------------------------------------------------------
\* The live iterator is a borrowed one
Borrowed == phase = "iter" /\ view \in {"nodes", "iter"}

\* C12: Borrowed traversals never change the store.  While a borrowed
\* iterator is alive the map is what it was when the iterator was created,
\* and no step taken with it (a call of next(), whatever it returns, or
\* dropping it part-way) changes the map; nor does a call of try_vec or
\* try_owned_vec.
C12_Step ==
    /\ Borrowed => (node_depends = store0 /\ node_depends' = node_depends)
    /\ vec' # vec => node_depends' = node_depends

C12_BorrowedKeepStore == [][C12_Step]_vars

\* A borrowed pair traversal that returned a node and then the cycle signal,
\* over a store that is still as it was
C12_Witness ==
    /\ Borrowed
    /\ view = "iter"
    /\ HasErr(out)
    /\ Len(out) >= 2
    /\ node_depends = store0
    /\ node_depends # EmptyMap

\* Borrowed iterators side by side.  nodes() and iter() take &self, so any
\* number of them can be alive over one store; insert and into_iter take
\* &mut self and self, so the store cannot change or move while one is.

\* How many borrowed iterators are alive at once
MaxIters == 2

\* TopoSort::nodes or TopoSort::iter creating the iterator called i
StartShared(i, v) ==
    /\ phase \in {"idle", "shared"}
    /\ ~panicked
    /\ vec = NoVec
    /\ i \notin DOMAIN shared
    /\ \E it \in inner_new(node_depends) :
          shared' = [x \in DOMAIN shared \cup {i} |->
                        IF x = i
                        THEN [view |-> v, nodes |-> it.nodes,
                              no_edges |-> it.no_edges, out |-> <<>>,
                              ends |-> 0, store0 |-> node_depends]
                        ELSE shared[x]]
    /\ phase' = "shared"
    /\ UNCHANGED <<node_depends, view, nodes, no_edges, out, ends, vec,
                   panicked, store0, inserted>>

\* One call of next() on the iterator called i
NextShared(i) ==
    /\ phase = "shared"
    /\ ~panicked
    /\ i \in DOMAIN shared
    /\ shared[i].ends < MaxEnds
    /\ \E order \in next_orders(shared[i].nodes, shared[i].no_edges),
          checks \in BOOLEAN :
          LET r == inner_next(shared[i].nodes, shared[i].no_edges, order, checks)
              it == IF IsOk(r.ret) /\ ~r.panicked
                    THEN view_item(shared[i].view, node_depends, r.ret[2])
                    ELSE [item |-> r.ret, nd |-> node_depends,
                          panicked |-> r.panicked]
          IN  /\ panicked' = it.panicked
              /\ node_depends' = it.nd
              /\ shared' =
                    [shared EXCEPT
                        ![i].nodes = r.nodes,
                        ![i].no_edges = r.no_edges,
                        ![i].out = IF it.panicked \/ it.item = <<"None">> THEN @
                                   ELSE Append(@, it.item),
                        ![i].ends = IF ~it.panicked /\ it.item = <<"None">>
                                    THEN @ + 1 ELSE @]
    /\ UNCHANGED <<phase, view, nodes, no_edges, out, ends, vec, store0,
                   inserted>>

\* The iterator called i is dropped
DropShared(i) ==
    /\ phase = "shared"
    /\ ~panicked
    /\ i \in DOMAIN shared
    /\ shared' = MapRemove(shared, i)
    /\ phase' = IF DOMAIN shared = {i} THEN "idle" ELSE "shared"
    /\ UNCHANGED <<node_depends, view, nodes, no_edges, out, ends, vec,
                   panicked, store0, inserted>>

\* The store the iterators share is built from the entries of the
\* termination fixture, any of them, in any order.
InsertShared == \E k \in DOMAIN TerminationStore : Insert(k, TerminationStore[k])

StartSharedAny == \E i \in 1..MaxIters, v \in {"nodes", "iter"} : StartShared(i, v)

NextSharedAny == \E i \in 1..MaxIters : NextShared(i)

DropSharedAny == \E i \in 1..MaxIters : DropShared(i)

NextSharedStore ==
    \/ InsertShared
    \/ StartSharedAny
    \/ NextSharedAny
    \/ DropSharedAny

SpecShared == Init /\ [][NextSharedStore]_vars

\* tests::test_misc: the nodes it inserts and the values it uses
MiscKeys == {"A", "C"}

MiscValues == {"A", "B", "C", "D"}

\* The longest slice or iterator given to an insert call
MaxSlice == 2

Slices == UNION {[1..n -> MiscValues] : n \in 0..MaxSlice}

InsertFromSliceMisc ==
    \E node \in MiscKeys, slice \in Slices : InsertFromSlice(node, slice)

InsertFromSetMisc ==
    \E node \in MiscKeys, depends \in SUBSET MiscValues :
        Cardinality(depends) <= MaxSlice /\ Insert(node, depends)

InsertIterMisc ==
    \E node \in MiscKeys, i \in Slices : InsertIter(node, i)

NextMisc ==
    \/ InsertFromSliceMisc
    \/ InsertFromSetMisc
    \/ InsertIterMisc

SpecMisc == Init /\ [][NextMisc]_vars

--------------------------------------------------------------------------
\* The live iterator returns pairs
Paired == phase = "iter" /\ view \in {"iter", "into_iter"}

C13_WitnessBorrowed ==
    /\ Paired
    /\ view = "iter"
    /\ \E i \in DOMAIN out :
          /\ IsOk(out[i])
          /\ out[i][3] # KeyDeps(store0, out[i][2])

--------------------------------------------------------------------------
\* size_hint of the three public iterators: each delegates to the engine
IntoTopoSortIter_size_hint(ns) == InnerIter_size_hint(ns)

TopoSortIter_size_hint(ns) == InnerIter_size_hint(ns)

TopoSortNodeIter_size_hint(ns) == InnerIter_size_hint(ns)

view_size_hint(v, ns) ==
    CASE v = "nodes" -> TopoSortNodeIter_size_hint(ns)
      [] v = "iter" -> TopoSortIter_size_hint(ns)
      [] v = "into_iter" -> IntoTopoSortIter_size_hint(ns)

\* Graph nodes neither emitted nor discarded: all keys before the first
\* step, one less per Ok result, none after the cycle signal or the end
Remaining ==
    IF HasErr(out) \/ Exhausted THEN 0
    ELSE Cardinality(DOMAIN store0) - Len(Emitted(out))

\* C14: At every point of a traversal size_hint returns the pair
\* (r, Some(r)) where r is the number of graph nodes not yet emitted or
\* discarded: the number of keys before the first step, one less after each
\* Ok result, zero after the cycle signal or once the traversal has ended.
C14_SizeHint ==
    (phase = "iter" /\ ~panicked) =>
        /\ view_size_hint(view, nodes) = <<Remaining, Remaining>>
        /\ Remaining >= 0

\* A cycle signal after one Ok result has discarded at least two nodes
C14_Witness ==
    /\ phase = "iter"
    /\ HasErr(out)
    /\ Len(out) = 2
    /\ Cardinality(DOMAIN store0) >= 3
    /\ view_size_hint(view, nodes) = <<0, 0>>

--------------------------------------------------------------------------
\* The dependency set an insert call was given: the set itself, or the
\* distinct elements of the slice or iterator
GivenSet(g) ==
    IF g.form = "set" THEN g.set ELSE {g.slice[j] : j \in DOMAIN g.slice}

\* C15: After any sequence of insert, insert_from_slice and insert_from_set
\* calls the store holds one entry per distinct node inserted: len is the
\* number of distinct nodes inserted, is_empty holds exactly when nothing
\* was inserted, get(n) is the dependency set given by the latest insert of
\* n (replacing, not merged with, what n had before), and get(n) is None for
\* a value never inserted as a node, also when it is a dependency of a node.
C15_StoreContents ==
    phase = "idle" =>
        /\ DOMAIN node_depends = DOMAIN inserted
        /\ len(node_depends) = Cardinality(DOMAIN inserted)
        /\ is_empty(node_depends) <=> (inserted = EmptyMap)
        /\ \A n \in MiscValues :
              get(node_depends, n) =
                  IF n \in DOMAIN inserted
                  THEN <<"Some", GivenSet(inserted[n])>>
                  ELSE <<"None">>

\* Both nodes of the fixture are in the store, "A" by a slice that repeats a
\* value and names "A" itself, "C" by a set, and "D" is a dependency of both
\* but not a node
C15_Witness ==
    /\ phase = "idle"
    /\ DOMAIN inserted = {"A", "C"}
    /\ inserted["A"].form = "slice"
    /\ inserted["A"].slice \in {<<"D", "D">>, <<"A", "D">>}
    /\ inserted["C"].form = "set"
    /\ inserted["C"].set = {"B", "D"}
    /\ get(node_depends, "C") = <<"Some", {"B", "D"}>>
    /\ get(node_depends, "D") = <<"None">>
    /\ len(node_depends) = 2

--------------------------------------------------------------------------
\* A traversal has been created and next() has not been called yet
Fresh == phase = "iter" /\ out = <<>> /\ ends = 0

\* The keys that list k as a dependency, k itself excepted
KeyDependents(nd, k) == {j \in DOMAIN nd \ {k} : k \in nd[j]}

\* C16: Right after a traversal is created the graph has exactly one node
\* per key of the store; the in-degree of a node is the number of distinct
\* values of its stored set that are keys other than the node; its
\* dependents are exactly the other keys that list it as a dependency; and
\* the ready queue holds exactly the nodes of in-degree zero, each once.
C16_GraphConstruction ==
    Fresh =>
        /\ DOMAIN nodes = {KeyAddr(k) : k \in DOMAIN store0}
        /\ \A k \in DOMAIN store0 :
              /\ nodes[KeyAddr(k)].edges = Cardinality(KeyDeps(store0, k))
              /\ nodes[KeyAddr(k)].dependents =
                    {KeyAddr(j) : j \in KeyDependents(store0, k)}
        /\ Range(no_edges) = {p \in DOMAIN nodes : nodes[p].edges = 0}
        /\ Len(no_edges) = Cardinality(Range(no_edges))

\* A fresh traversal of a store in which a key depends on itself, on a
\* value that is not a key and on another key
C16_Witness ==
    /\ Fresh
    /\ \E k \in DOMAIN store0 :
          /\ k \in store0[k]
          /\ store0[k] \ DOMAIN store0 # {}
          /\ nodes[KeyAddr(k)].edges = 1
          /\ Len(no_edges) = 1
          /\ nodes[no_edges[1]].dependents = {KeyAddr(k)}

--------------------------------------------------------------------------
\* The non-self key dependencies of k that are still in the graph
RemainingDeps(k) == {d \in KeyDeps(store0, k) : KeyAddr(d) \in DOMAIN nodes}

\* C17: In every state of a traversal before the cycle signal, each node
\* still in the graph has an in-degree equal to the number of its non-self
\* key dependencies still in the graph, and the ready queue holds exactly
\* the remaining nodes of in-degree zero, each once; so no in-degree is ever
\* decremented below zero and no lookup of a popped node or of a dependent
\* fails (no call panics).
C17_StepInvariant ==
    (phase = "iter" /\ ~HasErr(out)) =>
        /\ ~panicked
        /\ DOMAIN nodes \subseteq {KeyAddr(k) : k \in DOMAIN store0}
        /\ \A p \in DOMAIN nodes :
              /\ nodes[p].edges = Cardinality(RemainingDeps(Deref(p)))
              /\ nodes[p].edges >= 0
              /\ nodes[p].dependents \ {KeyAddr(k) : k \in Range(Emitted(out))}
                    \subseteq DOMAIN nodes
        /\ Range(no_edges) = {p \in DOMAIN nodes : nodes[p].edges = 0}
        /\ Len(no_edges) = Cardinality(Range(no_edges))

\* In the middle of a traversal: a node has been emitted, one that waited
\* for it is still waiting for another, and a node is ready
C17_Witness ==
    /\ phase = "iter"
    /\ ~HasErr(out)
    /\ Len(out) = 1
    /\ no_edges # <<>>
    /\ \E p \in DOMAIN nodes :
          /\ nodes[p].edges = 1
          /\ Cardinality(KeyDeps(store0, Deref(p))) = 2

--------------------------------------------------------------------------
NumErr(o) == Cardinality({i \in DOMAIN o : IsErr(o[i])})

\* The calls of next() made on the live iterator
Calls == Len(out) + ends

C18_Bound ==
    (phase = "iter" /\ ~panicked) =>
        /\ Len(Emitted(out)) <= Cardinality(DOMAIN store0)
        /\ NumErr(out) <= 1
        /\ Len(out) <= Cardinality(DOMAIN store0) + 1

C18_Step ==
    /\ C18_Bound'
    /\ (phase = "iter" /\ phase' = "iter" /\ ~panicked' /\ Calls' # Calls) =>
          /\ Calls' = Calls + 1
          /\ (Len(out') > Len(out) /\ IsOk(out'[Len(out')])) =>
                Cardinality(DOMAIN nodes') < Cardinality(DOMAIN nodes)
          /\ Calls >= Cardinality(DOMAIN store0) + 1 =>
                (out' = out /\ ends' = ends + 1)

\* C18: A traversal of a store with n keys returns at most n Ok results and
\* at most one cycle signal, whatever the tie-breaks; every Ok step makes
\* the graph strictly smaller; and from the (n+2)-th call on next() returns
\* None.
C18_Termination == [][C18_Step]_vars

\* A traversal of three keys has ended after an Ok result and the cycle
\* signal and has been called once more
C18_Witness ==
    /\ phase = "iter"
    /\ Cardinality(DOMAIN store0) = 3
    /\ Len(Emitted(out)) = 1
    /\ NumErr(out) = 1
    /\ ends = 2

\* The results never outnumber the keys
ResultsWithinKeys == (phase = "iter" /\ ~panicked) => Len(out) <= Cardinality(DOMAIN store0)

--------------------------------------------------------------------------
\* The results o as a node view returns them: without the dependency sets
AsNodeResults(o) ==
    [i \in DOMAIN o |-> IF IsOk(o[i]) THEN <<"Ok", o[i][2]>> ELSE o[i]]

\* What the iterator it has returned so far is what an iterator alone on
\* the store it was created from can return, and all of it once it has ended
IsolatedRun(it) ==
    \E run \in AllRuns(it.store0) :
        /\ IsPrefix(AsNodeResults(it.out), run)
        /\ it.ends >= 1 => AsNodeResults(it.out) = run

\* C19: Borrowed traversals of one unmodified store, started together or
\* one after another and stepped in any interleaving, do not interfere: no
\* call panics, the store stays as it was, and each traversal returns a
\* sequence of results that a traversal alone on the store can return; for a
\* store without a cycle that is a complete order of the keys with every key
\* after its key dependencies.  The traversals need not agree on the order.
C19_NoInterference ==
    phase = "shared" =>
        /\ ~panicked
        /\ \A i \in DOMAIN shared :
              /\ node_depends = shared[i].store0
              /\ IsolatedRun(shared[i])
              /\ DependenciesFirst(node_depends, shared[i].out)
              /\ NoDuplicates(shared[i].out)
              /\ shared[i].view = "iter" =>
                    \A j \in DOMAIN shared[i].out :
                        IsOk(shared[i].out[j]) =>
                            shared[i].out[j][3] = node_depends[shared[i].out[j][2]]
              /\ (shared[i].ends >= 1 /\ ~HasCycle(node_depends)) =>
                    /\ ~HasErr(shared[i].out)
                    /\ Range(Emitted(shared[i].out)) = DOMAIN node_depends

\* Two traversals of a store of three keys are both under way, one of pairs
\* and one of nodes, and have started with different keys
C19_Witness ==
    /\ phase = "shared"
    /\ Cardinality(DOMAIN node_depends) = 3
    /\ \E i, j \in DOMAIN shared :
          /\ shared[i].view = "iter"
          /\ shared[j].view = "nodes"
          /\ Len(shared[i].out) = 1
          /\ Len(shared[j].out) = 2
          /\ shared[i].ends = 0
          /\ shared[j].ends = 0
          /\ IsOk(shared[i].out[1])
          /\ IsOk(shared[j].out[1])
          /\ shared[i].out[1][2] # shared[j].out[1][2]
          /\ shared[i].no_edges # <<>>

\* Two traversals of the same store without a cycle have both ended, with
\* different orders
C19_WitnessEnded ==
    /\ phase = "shared"
    /\ ~HasCycle(node_depends)
    /\ \E i, j \in DOMAIN shared :
          /\ shared[i].ends >= 1
          /\ shared[j].ends >= 1
          /\ Len(shared[i].out) = 3
          /\ Emitted(shared[i].out) # Emitted(shared[j].out)

====
